---- MODULE Spec2Model ----
(***************************************************************************)
(* Model of gstchecksumsink.c: a GStreamer sink that packs the planes of   *)
(* an I420 / YV12 frame into a scratch buffer and prints checksums of the  *)
(* packed bytes, per plane or for the whole frame.                         *)
(***************************************************************************)
EXTENDS Integers, Sequences, FiniteSets, TLC

\* ------------------------------------------------------------------ bounds
MaxDim == 3        \* largest negotiated width / height explored
MinDim == MaxDim - 1
MaxCrop == 3       \* largest crop-meta width / height explored
MaxPad == 1        \* largest number of padding bytes per source row
MaxPat == 1        \* pixel patterns 0..MaxPat
MaxBig == 7        \* largest of the small dimensions of the size arithmetic

\* ------------------------------------------------------- guint arithmetic
\* A guint is 32 bits wide.  Values are kept as little-endian base-256 limb
\* sequences of length 8, so that exact products (up to 64 bits) and their
\* truncation to 32 bits are both representable.
GuintLimbs == 4
NLimbs == 2 * GuintLimbs
Pow256 == <<1, 256, 65536, 16777216>>
LimbBase == Pow256[2]

ToLimbs(n) ==
  [i \in 1..NLimbs |-> IF i <= GuintLimbs THEN (n \div Pow256[i]) % LimbBase ELSE 0]

RECURSIVE Carry(_, _, _)
Carry(cols, i, c) ==
  IF i > NLimbs THEN <<>>
  ELSE <<(cols[i] + c) % LimbBase>> \o Carry(cols, i + 1, (cols[i] + c) \div LimbBase)

RECURSIVE ColSum(_, _, _, _)
ColSum(a, b, k, i) ==
  IF i > k THEN 0
  ELSE (IF i <= NLimbs /\ k + 1 - i <= NLimbs THEN a[i] * b[k + 1 - i] ELSE 0)
       + ColSum(a, b, k, i + 1)

\* exact product and sum of two limb numbers (no truncation below 64 bits)
MulExact(a, b) == Carry([k \in 1..NLimbs |-> ColSum(a, b, k, 1)], 1, 0)
AddExact(a, b) == Carry([k \in 1..NLimbs |-> a[k] + b[k]], 1, 0)

\* truncation of a value to guint
Wrap32(l) == [i \in 1..NLimbs |-> IF i <= GuintLimbs THEN l[i] ELSE 0]

\* guint * guint and guint + guint as C computes them
Mul32(a, b) == Wrap32(MulExact(a, b))
Add32(a, b) == Wrap32(AddExact(a, b))

RECURSIVE LimbLeqFrom(_, _, _)
LimbLeqFrom(a, b, i) ==
  IF i = 0 THEN TRUE
  ELSE IF a[i] # b[i] THEN a[i] < b[i]
  ELSE LimbLeqFrom(a, b, i - 1)

LimbLeq(a, b) == LimbLeqFrom(a, b, NLimbs)

\* the integer a limb number stands for (only used below 2^31)
LimbVal(l) == l[1] + l[2] * Pow256[2] + l[3] * Pow256[3] + l[4] * Pow256[4]

\* ------------------------------------------------------------- data model
Formats == {"I420", "YV12", "NV12"}
ChecksumTypes == {"md5", "sha1", "sha256"}

\* g_compute_checksum_for_data: an abstract digest, a function of the
\* algorithm and of the bytes digested (distinct inputs, distinct digests)
Checksum(type, bytes) == [alg |-> type, of |-> bytes]

\* colour component stored in plane p of a format
CompOf(format, p) ==
  IF p = 0 THEN "Y"
  ELSE IF format = "YV12" THEN (IF p = 1 THEN "Cr" ELSE "Cb")
  ELSE (IF p = 1 THEN "Cb" ELSE "Cr")

CompIdx(comp) == IF comp = "Y" THEN 0 ELSE IF comp = "Cb" THEN 1 ELSE 2

\* pixel content: pattern 0 is the all-zero frame, the others give every
\* component and every row a different content
Pix(pat, comp, r, c) ==
  IF pat = 0 THEN 0 ELSE (pat * (CompIdx(comp) + 1) + 2 * r + c) % 3

\* dimensions of plane p of a mapped 4:2:0 frame (chroma rounded up)
MappedW(p, W) == IF p = 0 THEN W ELSE (W + 1) \div 2
MappedH(p, H) == IF p = 0 THEN H ELSE (H + 1) \div 2

\* the bytes of plane p as gst_video_frame_map exposes them
MappedPlane(format, p, W, H, pad, pat, padval) ==
  LET st == MappedW(p, W) + pad
  IN [i \in 1..(st * MappedH(p, H)) |->
        IF (i - 1) % st < MappedW(p, W)
        THEN Pix(pat, CompOf(format, p), (i - 1) \div st, (i - 1) % st)
        ELSE padval]

\* content of a byte of the heap that was never written
Uninit == 0 - 1
\* values padding bytes (and bytes read out of bounds) take: one that is also
\* a pixel value and one that is not
PadVals == {0, 7}
NoCrop == [present |-> FALSE, width |-> 0, height |-> 0]
CropMetas ==
  {NoCrop} \cup [present : {TRUE}, width : 1..MaxCrop, height : 1..MaxCrop]

Buffers ==
  {b \in [crop : CropMetas, pad : 0..MaxPad, pat : 0..MaxPat,
           padval : PadVals, mappable : BOOLEAN] : b.pad = 0 => b.padval = 0}

NoBuffer == [crop |-> NoCrop, pad |-> 0, pat |-> 0, padval |-> 0, mappable |-> TRUE]
\* what set_caps can negotiate
Caps == [format : Formats, width : MinDim..MaxDim, height : MinDim..MaxDim]
NoFrame == [data |-> <<>>, stride |-> <<>>, n_planes |-> 0]

\* ------------------------------------------------------------------ state
VARIABLES
  checksum_type,   \* checksumsink->checksum_type
  plane_checksum,  \* checksumsink->plane_checksum
  vinfo,           \* checksumsink->vinfo: format, width, height
  pc,              \* position of the streaming thread
  buffer,          \* the GstBuffer handed to render
  width, height,   \* render locals
  Ysize, Usize, Vsize, size,
  frame,           \* the mapped GstVideoFrame
  scratch,         \* contents of the block g_malloc returned (dp)
  data,            \* write cursor, as an offset from dp
  plane, j, sp,    \* loop counters and source cursor (offset in the plane)
  out,             \* text printed by the current render call
  ret,             \* value of the last return of render
  heap_live,       \* scratch blocks allocated and not freed
  maps,            \* frame mappings not yet unmapped
  bad_free,        \* g_free was given a pointer g_malloc did not return
  oob,             \* memcpy read outside the source row or plane in this call
  heap_overflow,   \* memcpy wrote outside the scratch block
  sz               \* size arithmetic on large dimensions

config == <<checksum_type, plane_checksum>>
locals == <<buffer, width, height, Ysize, Usize, Vsize, size, frame, scratch,
            data, plane, j, sp>>
heap == <<heap_live, maps, bad_free, oob, heap_overflow>>
vars == <<checksum_type, plane_checksum, vinfo, pc, buffer, width, height,
          Ysize, Usize, Vsize, size, frame, scratch, data, plane, j, sp,
          out, ret, heap_live, maps, bad_free, oob, heap_overflow, sz>>

SzIdle == [pc |-> "off"]

\* gst_checksum_sink_init, and caps already negotiated
Init ==
  /\ checksum_type = "sha1"
  /\ plane_checksum = FALSE
  /\ vinfo \in Caps
  /\ pc = "idle"
  /\ buffer = NoBuffer
  /\ width = 0 /\ height = 0
  /\ Ysize = 0 /\ Usize = 0 /\ Vsize = 0 /\ size = 0
  /\ frame = NoFrame
  /\ scratch = <<>>
  /\ data = 0 /\ plane = 0 /\ j = 0 /\ sp = 0
  /\ out = <<>>
  /\ ret = "NONE"
  /\ heap_live = 0 /\ maps = 0
  /\ bad_free = FALSE /\ oob = FALSE /\ heap_overflow = FALSE
  /\ sz = SzIdle

\* ------------------------------------------------------------ set_property
\* gst_checksum_sink_set_property, PROP_CHECKSUM_TYPE
set_checksum_type(value) ==
  /\ pc # "aborted"
  /\ checksum_type' = value
  /\ UNCHANGED <<plane_checksum, vinfo, pc, locals, out, ret, heap, sz>>

\* gst_checksum_sink_set_property, PROP_PLANE_CHECKSUM
set_plane_checksum(value) ==
  /\ pc # "aborted"
  /\ plane_checksum' = value
  /\ UNCHANGED <<checksum_type, vinfo, pc, locals, out, ret, heap, sz>>

\* gst_checksum_sink_set_caps: called on the streaming thread, between buffers
set_caps(caps) ==
  /\ pc = "idle"
  /\ vinfo' = caps
  /\ UNCHANGED <<config, pc, locals, out, ret, heap, sz>>

\* ------------------------------------------------------------------ render
get_plane_width(p, w) == IF p # 0 THEN w \div 2 ELSE w
get_plane_height(p, h) == IF p # 0 THEN h \div 2 ELSE h

\* the format check left out
Supported_any(format) == TRUE
Supported(format) == format = "I420" \/ format = "YV12"

\* Ysize, Usize, size as computed in guint arithmetic
YsizeOf(w, h) == Mul32(ToLimbs(w), ToLimbs(h))
UsizeOf(w, h) == Mul32(ToLimbs(w \div 2), ToLimbs(h \div 2))
SizeOf(w, h) == Add32(Add32(YsizeOf(w, h), UsizeOf(w, h)), UsizeOf(w, h))

\* the effective width and height: crop meta when present, else the caps
EffWidth(b, vi) == IF ~b.crop.present THEN vi.width ELSE b.crop.width
EffHeight(b, vi) == IF ~b.crop.present THEN vi.height ELSE b.crop.height

\* a failed map skips the frame and render goes on with the next buffer
AfterMapFailure_skip == "idle"
\* where a failed gst_video_frame_map leaves the thread: g_assert_not_reached
AfterMapFailure == "aborted"

\* lines 232-266: crop meta, format check, sizes
render_entry(b) ==
  /\ pc = "idle"
  /\ IF ~Supported(vinfo.format)
     THEN /\ ret' = "GST_FLOW_ERROR"
          /\ pc' = "idle"
          /\ UNCHANGED <<buffer, width, height, Ysize, Usize, Vsize, size>>
     ELSE /\ ret' = "NONE"
          /\ pc' = "map"
          /\ buffer' = b
          /\ width' = EffWidth(b, vinfo)
          /\ height' = EffHeight(b, vinfo)
          /\ Ysize' = LimbVal(YsizeOf(width', height'))
          /\ Usize' = LimbVal(UsizeOf(width', height'))
          /\ Vsize' = Usize'
          /\ size' = LimbVal(SizeOf(width', height'))
  /\ UNCHANGED <<config, vinfo, frame, scratch, data, plane, j, sp, out, heap, sz>>

\* lines 268-278: map the frame, allocate the scratch buffer
render_map ==
  /\ pc = "map"
  /\ IF ~buffer.mappable
     THEN /\ pc' = AfterMapFailure
          /\ UNCHANGED <<frame, scratch, data, plane, j, sp, heap>>
     ELSE /\ frame' =
               [data |-> [p \in 1..3 |->
                           MappedPlane(vinfo.format, p - 1, vinfo.width, vinfo.height,
                                       buffer.pad, buffer.pat, buffer.padval)],
                stride |-> [p \in 1..3 |-> MappedW(p - 1, vinfo.width) + buffer.pad],
                n_planes |-> 3]
          /\ maps' = maps + 1
          /\ scratch' = [i \in 1..size |-> Uninit]
          /\ heap_live' = heap_live + (IF size > 0 THEN 1 ELSE 0)
          /\ data' = 0 /\ plane' = 0 /\ j' = 0 /\ sp' = 0
          /\ pc' = "loop"
          /\ UNCHANGED <<bad_free, oob, heap_overflow>>
  /\ UNCHANGED <<config, vinfo, buffer, width, height, Ysize, Usize, Vsize, size,
                 out, ret, sz>>

\* the source cursor advanced like the destination, by the copied width
RowAdvance_packed(stride, w) == w
\* source advance per copied row
RowAdvance(stride, w) == stride

\* lines 285-289: one iteration of the row loop
render_copy_row ==
  LET w == get_plane_width(plane, width)
      h == get_plane_height(plane, height)
      src == frame.data[plane + 1]
      outside == w > frame.stride[plane + 1] \/ sp + w > Len(src)
  IN /\ pc = "loop" /\ plane < frame.n_planes /\ j < h
     /\ \E g \in (IF sp + w > Len(src) THEN PadVals ELSE {0}) :
          scratch' = [i \in 1..Len(scratch) |->
                        IF i > data /\ i <= data + w
                        THEN (IF sp + (i - data) <= Len(src)
                              THEN src[sp + (i - data)] ELSE g)
                        ELSE scratch[i]]
     /\ oob' = (oob \/ outside)
     /\ heap_overflow' = (heap_overflow \/ data + w > Len(scratch))
     /\ data' = data + w
     /\ sp' = sp + RowAdvance(frame.stride[plane + 1], w)
     /\ j' = j + 1
     /\ UNCHANGED <<config, vinfo, pc, buffer, width, height, Ysize, Usize, Vsize,
                    size, frame, plane, out, ret, heap_live, maps, bad_free, sz>>

\* the YV12 chroma planes looked up where I420 order would put Cb and Cr
PlaneOffset_swapped(p, format, ys, us, vs) ==
  IF p = 0 THEN 0
  ELSE IF format = "I420" THEN (IF p = 1 THEN ys ELSE ys + us)
  ELSE (IF p = 1 THEN ys + us ELSE ys)
\* lines 294-317: the byte range of the scratch buffer digested for a plane
PlaneOffset(p, format, ys, us, vs) ==
  IF p = 0 THEN 0
  ELSE IF p = 1 THEN ys
  ELSE IF format = "I420" THEN ys + us ELSE ys + vs

\* every plane digested with the size of the luma plane
PlaneSize_luma(p, format, ys, us, vs) == ys
PlaneSize(p, format, ys, us, vs) ==
  IF p = 0 THEN ys
  ELSE IF p = 1 THEN (IF format = "I420" THEN us ELSE vs)
  ELSE (IF format = "I420" THEN vs ELSE us)

\* bytes [off, off+len) of the scratch block; reads past its end are undefined
Range(mem, off, len) ==
  [i \in 1..len |-> IF off + i <= Len(mem) THEN mem[off + i] ELSE Uninit]

\* the per-plane digest printed without testing the flag
PlaneFlag_always(pl) == TRUE
\* the flag tested after a plane has been copied (line 291)
PlaneFlag(pl) == pl

\* lines 291-324 and the loop increment: the plane's checksum, next plane
render_plane_checksum ==
  /\ pc = "loop" /\ plane < frame.n_planes
  /\ j >= get_plane_height(plane, height)
  /\ IF PlaneFlag(plane_checksum)
     THEN out' = Append(out,
                   [kind |-> "plane",
                    digest |-> Checksum(checksum_type,
                                 Range(scratch,
                                       PlaneOffset(plane, vinfo.format, Ysize, Usize, Vsize),
                                       PlaneSize(plane, vinfo.format, Ysize, Usize, Vsize)))])
     ELSE out' = out
  /\ plane' = plane + 1
  /\ j' = 0 /\ sp' = 0
  /\ UNCHANGED <<config, vinfo, pc, buffer, width, height, Ysize, Usize, Vsize,
                 size, frame, scratch, data, ret, heap, sz>>

\* the assignment data = dp left out
ResetCursor_kept(d) == d
\* line 326: the cursor goes back to the start of the block
ResetCursor(d) == 0

\* lines 326-329: leave the loop, end the per-plane line
render_newline ==
  /\ pc = "loop" /\ plane >= frame.n_planes
  /\ data' = ResetCursor(data)
  /\ out' = IF plane_checksum THEN Append(out, [kind |-> "newline"]) ELSE out
  /\ pc' = "frame"
  /\ UNCHANGED <<config, vinfo, buffer, width, height, Ysize, Usize, Vsize, size,
                 frame, scratch, plane, j, sp, ret, heap, sz>>

\* lines 331-336: the checksum of the whole frame
render_frame_checksum ==
  /\ pc = "frame"
  /\ out' = IF ~plane_checksum
            THEN Append(out, [kind |-> "frame",
                              digest |-> Checksum(checksum_type, Range(scratch, data, size))])
            ELSE out
  /\ pc' = "release"
  /\ UNCHANGED <<config, vinfo, locals, ret, heap, sz>>

\* lines 338-341: free the scratch buffer, unmap, return; the locals die
render_release ==
  /\ pc = "release"
  /\ IF data = 0
     THEN /\ heap_live' = heap_live - (IF size > 0 THEN 1 ELSE 0)
          /\ UNCHANGED bad_free
     ELSE /\ bad_free' = TRUE
          /\ UNCHANGED heap_live
  /\ scratch' = <<>>
  /\ maps' = maps - 1
  /\ frame' = NoFrame
  /\ ret' = "GST_FLOW_OK"
  /\ pc' = "idle"
  /\ buffer' = NoBuffer
  /\ width' = 0 /\ height' = 0
  /\ Ysize' = 0 /\ Usize' = 0 /\ Vsize' = 0 /\ size' = 0
  /\ data' = 0 /\ plane' = 0 /\ j' = 0 /\ sp' = 0
  /\ out' = <<>>
  /\ oob' = FALSE
  /\ UNCHANGED <<config, vinfo, heap_overflow, sz>>

render_step ==
  \/ render_map
  \/ render_copy_row
  \/ render_plane_checksum
  \/ render_newline
  \/ render_frame_checksum
  \/ render_release

\* properties are set between two render calls
Next ==
  \/ \E b \in Buffers : render_entry(b)
  \/ render_step
  \/ \E c \in Caps : set_caps(c)
  \/ \E t \in ChecksumTypes : pc = "idle" /\ set_checksum_type(t)
  \/ \E v \in BOOLEAN : pc = "idle" /\ set_plane_checksum(v)

Spec == Init /\ [][Next]_vars

\* properties are set from another thread at any time
NextConc ==
  \/ \E b \in Buffers : render_entry(b)
  \/ render_step
  \/ \E c \in Caps : set_caps(c)
  \/ \E t \in ChecksumTypes : set_checksum_type(t)
  \/ \E v \in BOOLEAN : set_plane_checksum(v)

SpecConc == Init /\ [][NextConc]_vars

\* ------------------------------------------------ sizes of large geometries
\* The same size arithmetic and the same loop bounds on widths and heights
\* too large to keep the bytes: only byte counts are kept, the exact number of
\* bytes the loop has written and the guint size handed to g_malloc.
Pow16 == Pow256[3]
BigDims == {0, 1, 2, 3, 5, MaxBig, Pow16 - 1, Pow16, Pow16 + 1, 3 * Pow16, 2147483647}

\* lines 244-276 for a buffer whose effective width and height are w and h
sz_entry(w, h) ==
  /\ sz.pc = "off"
  /\ sz' = [pc |-> "extract", width |-> w, height |-> h,
            Ysize |-> YsizeOf(w, h), Usize |-> UsizeOf(w, h),
            size |-> SizeOf(w, h), written |-> ToLimbs(0), plane |-> 0]
  /\ UNCHANGED <<config, vinfo, pc, locals, out, ret, heap>>

\* lines 279-289 for one plane: h rows of w bytes are written at the cursor
sz_extract ==
  /\ sz.pc = "extract" /\ sz.plane < 3
  /\ sz' = [sz EXCEPT
              !.written = AddExact(@, MulExact(ToLimbs(get_plane_width(sz.plane, sz.width)),
                                              ToLimbs(get_plane_height(sz.plane, sz.height)))),
              !.plane = @ + 1]
  /\ UNCHANGED <<config, vinfo, pc, locals, out, ret, heap>>

\* lines 326-341: the call returns
sz_return ==
  /\ sz.pc = "extract" /\ sz.plane = 3
  /\ sz' = SzIdle
  /\ UNCHANGED <<config, vinfo, pc, locals, out, ret, heap>>

NextSize ==
  \/ \E w \in BigDims, h \in BigDims : sz_entry(w, h)
  \/ sz_extract
  \/ sz_return

SpecSize == Init /\ [][NextSize]_vars

\* ------------------------------------------------------------- properties
InCall == pc \in {"loop", "frame", "release"}
PW(k) == get_plane_width(k, width)
PH(k) == get_plane_height(k, height)
PLen(k) == PW(k) * PH(k)
\* start of plane k in the packed buffer: the bytes of the lower planes
POff(k) == IF k = 0 THEN 0 ELSE IF k = 1 THEN PLen(0) ELSE PLen(0) + PLen(1)
Kinds(o) == [i \in 1..Len(o) |-> o[i].kind]
Written(bytes) == \A i \in 1..Len(bytes) : bytes[i] # Uninit

\* the first PW(k) bytes of the first PH(k) rows of source plane k
Logical(k) ==
  [i \in 1..PLen(k) |->
     frame.data[k + 1][((i - 1) \div PW(k)) * frame.stride[k + 1] + ((i - 1) % PW(k)) + 1]]
\* the pixels of a colour component inside the effective width and height
Pixels(comp, k) ==
  [i \in 1..PLen(k) |-> Pix(buffer.pat, comp, (i - 1) \div PW(k), (i - 1) % PW(k))]
\* the effective region lies inside every mapped row and plane
ValidStrides ==
  \A k \in 0..2 : PW(k) <= frame.stride[k + 1]
                  /\ PH(k) <= MappedH(k, vinfo.height)
\* the effective region lies inside the negotiated picture
InsidePicture == width <= vinfo.width /\ height <= vinfo.height

\* C1: a frame that render processes to the end prints exactly one line, and
\* the per-plane setting alone decides its shape: enabled, the digests of
\* planes 0, 1, 2 in that order and then one newline, no FrameChecksum;
\* disabled, nothing while the planes are extracted and then one FrameChecksum
\* digest of the fully written packed buffer.
C1_OneLinePerFrame ==
  /\ (pc = "loop" /\ plane_checksum) =>
        /\ Len(out) = plane
        /\ \A i \in 1..Len(out) : out[i].kind = "plane"
  /\ (pc \in {"loop", "frame"} /\ ~plane_checksum) => out = <<>>
  /\ (pc = "release" /\ plane_checksum) =>
        /\ Kinds(out) = <<"plane", "plane", "plane", "newline">>
        /\ \A k \in 0..2 :
             out[k + 1].digest = Checksum(checksum_type, Range(scratch, POff(k), PLen(k)))
  /\ (pc = "release" /\ ~plane_checksum) =>
        /\ Kinds(out) = <<"frame">>
        /\ out[1].digest = Checksum(checksum_type, scratch)
        /\ Written(scratch)
        /\ Len(scratch) = PLen(0) + PLen(1) + PLen(2)

C1_Witness ==
  pc = "release" /\ plane_checksum /\ Len(out) = 4 /\ checksum_type = "md5"

\* C2: a frame prints either three plane digests and a newline or one
\* FrameChecksum line, all digests of one algorithm, also when properties are
\* set while render is processing the frame.
C2_NoMixedFrame ==
  pc = "release" =>
    /\ \/ Kinds(out) = <<"plane", "plane", "plane", "newline">>
       \/ Kinds(out) = <<"frame">>
    /\ \A a, b \in 1..Len(out) :
         (out[a].kind # "newline" /\ out[b].kind # "newline")
           => out[a].digest.alg = out[b].digest.alg

\* C3 as stated: the same pixel content, once as I420 and once as YV12 with
\* the chroma planes swapped, gives the same whole-frame digest: the one of
\* Y, Cb, Cr packed in that order, whatever the format.
C3_SameFrameDigest ==
  (pc = "release" /\ ~plane_checksum /\ InsidePicture) =>
     out[1].digest =
       Checksum(checksum_type, Pixels("Y", 0) \o Pixels("Cb", 1) \o Pixels("Cr", 2))

\* C3 amended: every digest is taken in plane-index order.  The whole-frame
\* digest is the one of Y, Cb, Cr for I420 and of Y, Cr, Cb for YV12 (the same
\* bytes only if Cb and Cr are equal); the per-plane digests are those of
\* Y, Cb, Cr for I420 and of Y, Cr, Cb for YV12, the two chroma digests swapped.
C3_PlaneOrderDigests ==
  (pc = "release" /\ InsidePicture) =>
     LET order == IF vinfo.format = "I420" THEN <<"Y", "Cb", "Cr">>
                  ELSE <<"Y", "Cr", "Cb">>
     IN /\ ~plane_checksum =>
             out[1].digest =
               Checksum(checksum_type,
                        Pixels(order[1], 0) \o Pixels(order[2], 1) \o Pixels(order[3], 2))
        /\ plane_checksum =>
             \A k \in 0..2 :
               out[k + 1].digest = Checksum(checksum_type, Pixels(order[k + 1], k))

C3_Witness ==
  /\ pc = "release" /\ InsidePicture /\ vinfo.format = "YV12" /\ ~plane_checksum
  /\ Pixels("Cb", 1) # Pixels("Cr", 2)
  /\ Len(out) = 1

\* C4: from a state whose negotiated format is neither I420 nor YV12 no step
\* maps the buffer, allocates, prints or starts the plane loop, and render
\* returns GST_FLOW_ERROR, whatever the buffer and the properties.
C4_UnsupportedFormatRejected ==
  [][(pc = "idle" /\ vinfo.format \notin {"I420", "YV12"}) =>
        /\ pc' = "idle"
        /\ UNCHANGED <<out, maps, heap_live, scratch, frame, data>>
        /\ ret' \in {ret, "GST_FLOW_ERROR"}
        /\ (UNCHANGED <<vinfo, config>> => ret' = "GST_FLOW_ERROR")]_vars

C4_Witness ==
  /\ ret = "GST_FLOW_ERROR" /\ vinfo.format = "NV12" /\ plane_checksum
  /\ pc = "idle" /\ out = <<>> /\ maps = 0 /\ heap_live = 0

\* C5: whenever a plane is being extracted its logical width is at most its
\* stride, and no row copy reads outside the source row or plane.
C5_WidthWithinStride ==
  /\ (pc = "loop" /\ plane < frame.n_planes /\ j < PH(plane))
        => PW(plane) <= frame.stride[plane + 1]
  /\ ~oob

\* C6: with strides at least the logical width, the packed buffer is the
\* logical content of the three planes (the first logical_width bytes of each
\* of the logical_height rows) and the digests are taken of it, whatever the
\* stride and the padding; inside the negotiated picture it is the pixels
\* themselves and no padding byte.
C6_StrideIndependent ==
  (pc = "release" /\ ValidStrides) =>
     /\ scratch = Logical(0) \o Logical(1) \o Logical(2)
     /\ ~plane_checksum =>
          out[1].digest =
            Checksum(checksum_type, Logical(0) \o Logical(1) \o Logical(2))
     /\ plane_checksum =>
          \A k \in 0..2 : out[k + 1].digest = Checksum(checksum_type, Logical(k))
     /\ InsidePicture =>
          \A k \in 0..2 : Logical(k) = Pixels(CompOf(vinfo.format, k), k)

C6_Witness ==
  /\ pc = "release" /\ ValidStrides /\ InsidePicture
  /\ buffer.pad > 0 /\ buffer.padval \notin {0, 1, 2} /\ buffer.pat > 0
  /\ PLen(1) > 0

\* C7: a buffer that cannot be mapped aborts the thread before anything is
\* allocated, extracted or printed, and nothing happens afterwards.
C7_MapFailureHalts ==
  /\ [](pc = "aborted" =>
          /\ heap_live = 0 /\ maps = 0 /\ scratch = <<>> /\ frame = NoFrame
          /\ data = 0 /\ out = <<>> /\ ret = "NONE")
  /\ [][(pc = "map" /\ ~buffer.mappable) => pc' = "aborted"]_vars
  /\ [][pc = "aborted" => UNCHANGED vars]_vars

C7_Witness == pc = "aborted" /\ buffer.crop.present /\ plane_checksum

\* C8: the scratch buffer and the mapping live only inside a render call; both
\* are released exactly once, the buffer through the pointer g_malloc gave.
C8_ResourcesScoped ==
  /\ ~bad_free
  /\ heap_live \in {0, 1} /\ maps \in {0, 1}
  /\ InCall => (maps = 1 /\ heap_live = (IF size > 0 THEN 1 ELSE 0))
  /\ ~InCall => (maps = 0 /\ heap_live = 0 /\ scratch = <<>>)

C8_Witness == pc = "idle" /\ ret = "GST_FLOW_OK" /\ plane_checksum

\* C9: every plane digest printed is the digest of the bytes of the packed
\* buffer from the end of the lower planes, logical_width * logical_height
\* long, all of them written before the digest was taken.
C9_PlaneDigestRange ==
  InCall =>
    \A k \in 0..2 :
      (k + 1 <= Len(out) /\ out[k + 1].kind = "plane") =>
         /\ out[k + 1].digest.of = Range(scratch, POff(k), PLen(k))
         /\ Written(out[k + 1].digest.of)
         /\ POff(k) + PLen(k) <= Len(scratch)
         /\ plane > k
         /\ data = 0 \/ data >= POff(k) + PLen(k)

C9_Witness ==
  /\ pc = "release" /\ plane_checksum /\ vinfo.format = "YV12"
  /\ width = 3 /\ height = 3 /\ Len(out) = 4 /\ buffer.pat > 0

\* C10: the bytes the extraction loop writes never exceed the guint size the
\* scratch buffer was allocated with, and equal it once the loop has ended.
C10_WritesFitAllocation ==
  sz.pc = "extract" =>
    /\ LimbLeq(sz.written, sz.size)
    /\ sz.plane = 3 => sz.written = sz.size

====
